---- MODULE Spec2Model ----
(***************************************************************************)
(* Model of backend/Scripts/visualize.py: the benchmark visualisation      *)
(* driver (main), the loader (load_data), the five chart generators and    *)
(* the LaTeX table generator.                                              *)
(*                                                                         *)
(* Latencies are integer milliseconds.  Quotients the script computes with *)
(* true division are kept exact as reduced fractions <<n, d>>; d = 0       *)
(* encodes the numpy results of a division by zero (<<1,0>> = inf,         *)
(* <<-1,0>> = -inf, <<0,0>> = nan).                                        *)
(***************************************************************************)
EXTENDS Integers, Sequences, FiniteSets, TLC

VARIABLES argv, cwd, output_dir, csv, order,
          searched, summary_file, summary, idx, invoked, files, out,
          pc, exit_code

vars == <<argv, cwd, output_dir, csv, order,
          searched, summary_file, summary, idx, invoked, files, out,
          pc, exit_code>>

(***************************************************************************)
(* Bounds of the exploration.                                              *)
(***************************************************************************)
MaxRows == 4
MaxFiles == 3
MaxArgs == 1

(***************************************************************************)
(* Fixed tables of the script.                                             *)
(***************************************************************************)
required_cols == <<"Tier", "Average", "Median", "P95", "P99", "Min", "Max">>

tier_order == <<"baseline", "zeroTrust", "contextAware", "privacyPreserving">>

tier_names == <<"Baseline", "Zero Trust", "Context-Aware", "Privacy-Preserving">>

\* variant: the table generator called before the charts
TableFirstOrder == <<"tbl", "avg", "pct", "ovh", "thr", "rng">>

FixedOrder == <<"avg", "pct", "ovh", "thr", "rng", "tbl">>

Range(s) == {s[i] : i \in DOMAIN s}

(***************************************************************************)
(* Exact arithmetic standing for the script's float arithmetic.            *)
(***************************************************************************)
Abs(n) == IF n < 0 THEN -n ELSE n

Sign(n) == IF n > 0 THEN 1 ELSE IF n < 0 THEN -1 ELSE 0

RECURSIVE Gcd(_, _)
Gcd(a, b) == IF b = 0 THEN a ELSE Gcd(b, a % b)

\* n / d with numpy scalar semantics: a zero divisor gives inf, -inf or nan
Quot(n, d) ==
    IF d = 0 THEN <<Sign(n), 0>>
    ELSE LET g == Gcd(Abs(n), Abs(d))
         IN  <<(Sign(d) * n) \div g, Abs(d) \div g>>

Pow10(k) == IF k = 0 THEN 1 ELSE IF k = 1 THEN 10 ELSE 100

\* f'{x:.kf}': the value rounded half-to-even to k decimals, held as the
\* integer x * 10^k; inf and nan print as themselves
Fmt(q, k) ==
    IF q[2] = 0
    THEN [special |-> (IF q[1] > 0 THEN "inf" ELSE IF q[1] < 0 THEN "-inf" ELSE "nan"),
          scaled |-> 0, decimals |-> k]
    ELSE LET n == q[1] * Pow10(k)
             d == q[2]
             fl == n \div d
             r == n - fl * d
             rounded == IF 2 * r < d THEN fl
                        ELSE IF 2 * r > d THEN fl + 1
                        ELSE IF fl % 2 = 0 THEN fl ELSE fl + 1
         IN  [special |-> "", scaled |-> rounded, decimals |-> k]

Max4(s) ==
    CHOOSE m \in Range(s) : \A x \in Range(s) : x <= m

(***************************************************************************)
(* DataFrame access.                                                       *)
(***************************************************************************)
\* variant: the row found by its position in the file, not by its Tier value
TierRowsByPosition(df, tier) ==
    LET k == CHOOSE i \in 1..4 : tier_order[i] = tier
    IN  IF k <= Len(df.rows) THEN <<df.rows[k]>> ELSE <<>>

\* summary[summary['Tier'] == tier]: the rows of that tier, in table order
TierRows(df, tier) ==
    LET Hit(r) == r.Tier = tier
    IN  SelectSeq(df.rows, Hit)

\* summary[summary['Tier'] == t][col].values[0] if len(...) > 0 else 0
ValueOrZero(df, tier, col) ==
    IF Len(TierRows(df, tier)) > 0 THEN TierRows(df, tier)[1][col] ELSE 0

\* variant: the scan stops at the first missing column
MissingColsFirstOnly(columns) ==
    LET Absent(c) == c \notin columns
    IN  IF SelectSeq(required_cols, Absent) = <<>> THEN <<>>
        ELSE <<SelectSeq(required_cols, Absent)[1]>>

\* [col for col in required_cols if col not in summary.columns]
MissingCols(columns) ==
    LET Absent(c) == c \notin columns
    IN  SelectSeq(required_cols, Absent)

(***************************************************************************)
(* Input resolution helpers.  A file name is a sequence of indices into    *)
(* Lexemes, which lists its strings in ascending character order, so       *)
(* comparing names index by index is the comparison of the strings.        *)
(***************************************************************************)
Lexemes == <<".csv", ".txt", "a", "b", "benchmark_results_", "results",
             "visualize.py", "z">>

RECURSIVE LexLess(_, _)
LexLess(a, b) ==
    IF Len(a) = 0 THEN Len(b) > 0
    ELSE IF Len(b) = 0 THEN FALSE
    ELSE IF a[1] # b[1] THEN a[1] < b[1]
    ELSE LexLess(Tail(a), Tail(b))

\* Path('.').glob('benchmark_results_*.csv')
GlobMatches(name) ==
    /\ Len(name) >= 2
    /\ Lexemes[name[1]] = "benchmark_results_"
    /\ Lexemes[name[Len(name)]] = ".csv"

Glob(dir) == {n \in dir : GlobMatches(n)}

\* variant: sorted(csv_files)[0]
SortedFirst(names) ==
    CHOOSE n \in names : \A m \in names : m = n \/ LexLess(n, m)

\* sorted(csv_files)[-1]
SortedLast(names) ==
    CHOOSE n \in names : \A m \in names : m = n \/ LexLess(m, n)

(***************************************************************************)
(* What each generator draws or writes, as a function of the DataFrame.    *)
(***************************************************************************)
\* lines 55-62: ordered_data of create_average_latency_comparison
AvgOrderedData(df) ==
    [i \in 1..4 |-> IF Len(TierRows(df, tier_order[i])) > 0
                    THEN TierRows(df, tier_order[i])[1].Average
                    ELSE 0]

\* lines 60-61: the tiers the average chart warns about, in loop order
AvgWarnings(df) ==
    LET Gone(t) == Len(TierRows(df, t)) = 0
    IN  SelectSeq(tier_order, Gone)

\* variant: no guard against a zero baseline
AvgBaselineUnguarded(df) == AvgOrderedData(df)[1]

\* line 75
AvgBaseline(df) ==
    IF AvgOrderedData(df)[1] > 0 THEN AvgOrderedData(df)[1] ELSE 1

\* variant: the difference taken relative to the tier's own average
OverheadPctOfTier(avg, baseline_avg) ==
    Quot((avg - baseline_avg) * 100, avg)

\* line 78: ((avg - baseline_avg) / baseline_avg) * 100
OverheadPct(avg, baseline_avg) ==
    Quot((avg - baseline_avg) * 100, baseline_avg)

\* lines 76-80: one annotation for every later tier whose bar is positive
AvgOverheadTexts(df) ==
    {[i |-> i,
      overhead |-> OverheadPct(AvgOrderedData(df)[i], AvgBaseline(df)),
      label |-> Fmt(OverheadPct(AvgOrderedData(df)[i], AvgBaseline(df)), 0)] :
        i \in {j \in 2..4 : AvgOrderedData(df)[j] > 0}}

AvgFigure(df) ==
    [bars |-> AvgOrderedData(df),
     value_labels |-> {[i |-> i, label |-> Fmt(Quot(AvgOrderedData(df)[i], 1), 1)] :
                          i \in {j \in 1..4 : AvgOrderedData(df)[j] > 0}},
     overhead_texts |-> AvgOverheadTexts(df),
     ylim |-> Quot(Max4(AvgOrderedData(df)) * 125, 100)]

\* lines 106-108
PctFigure(df) ==
    [medians |-> [i \in 1..4 |-> ValueOrZero(df, tier_order[i], "Median")],
     p95s |-> [i \in 1..4 |-> ValueOrZero(df, tier_order[i], "P95")],
     p99s |-> [i \in 1..4 |-> ValueOrZero(df, tier_order[i], "P99")]]

\* lines 147-155
OvhFigure(df) ==
    LET avgs == [i \in 1..4 |-> ValueOrZero(df, tier_order[i], "Average")]
    IN  [baseline |-> avgs[1],
         values |-> <<avgs[2] - avgs[1], avgs[3] - avgs[2], avgs[4] - avgs[3]>>]

\* variant: the guard admits a zero average
ThroughputUnguarded(avg) == IF avg >= 0 THEN Quot(1000, avg) ELSE <<0, 1>>

\* line 199: 1000 / avg if avg > 0 else 0
Throughput(avg) == IF avg > 0 THEN Quot(1000, avg) ELSE <<0, 1>>

\* lines 198-201
ThrFigure(df) ==
    [throughput |-> [i \in 1..4 |->
                        Throughput(ValueOrZero(df, tier_order[i], "Average"))]]

\* variant: an absent tier plotted at 0 like the other charts do
RngFigureSubstitute(df) ==
    [points |-> {[i |-> i,
                  avg |-> ValueOrZero(df, tier_order[i], "Average"),
                  below |-> ValueOrZero(df, tier_order[i], "Average")
                            - ValueOrZero(df, tier_order[i], "Min"),
                  above |-> ValueOrZero(df, tier_order[i], "Max")
                            - ValueOrZero(df, tier_order[i], "Average")] :
                     i \in 1..4}]

\* lines 233-243: one error bar for every tier that has a row
RngFigure(df) ==
    [points |-> {[i |-> i,
                  avg |-> TierRows(df, tier_order[i])[1].Average,
                  below |-> TierRows(df, tier_order[i])[1].Average
                            - TierRows(df, tier_order[i])[1].Min,
                  above |-> TierRows(df, tier_order[i])[1].Max
                            - TierRows(df, tier_order[i])[1].Average] :
                     i \in {j \in 1..4 : Len(TierRows(df, tier_order[j])) > 0}}]

\* variant: the baseline row gets a percentage like the others
OverheadCellNoDash(i, avg, baseline_avg) ==
    [dashes |-> FALSE, prefix |-> "+",
     value |-> OverheadPct(avg, baseline_avg),
     pct |-> Fmt(OverheadPct(avg, baseline_avg), 1)]

\* line 284: '---' if i == 0 else f"+{((avg - baseline_avg) / baseline_avg * 100):.1f}\\%"
\* (i counts from 1 here)
OverheadCell(i, avg, baseline_avg) ==
    IF i = 1
    THEN [dashes |-> TRUE, prefix |-> "", value |-> <<0, 1>>,
          pct |-> Fmt(<<0, 1>>, 1)]
    ELSE [dashes |-> FALSE, prefix |-> "+",
          value |-> OverheadPct(avg, baseline_avg),
          pct |-> Fmt(OverheadPct(avg, baseline_avg), 1)]

\* lines 276-285: the data rows of the LaTeX table; only evaluated when the
\* baseline lookup of line 274 has succeeded
TableRows(df) ==
    LET baseline_avg == TierRows(df, "baseline")[1].Average
        present == SelectSeq(<<1, 2, 3, 4>>,
                             LAMBDA i : Len(TierRows(df, tier_order[i])) > 0)
        Line(i) ==
            LET row == TierRows(df, tier_order[i])[1]
            IN  [name |-> tier_names[i],
                 avg |-> Fmt(Quot(row.Average, 1), 2),
                 med |-> Fmt(Quot(row.Median, 1), 2),
                 p95 |-> Fmt(Quot(row.P95, 1), 2),
                 p99 |-> Fmt(Quot(row.P99, 1), 2),
                 cell |-> OverheadCell(i, row.Average, baseline_avg)]
    IN  [k \in 1..Len(present) |-> Line(present[k])]

\* lines 345-352: the lines of the console summary
SummaryLines(df) ==
    LET baseline_avg == TierRows(df, "baseline")[1].Average
        present == SelectSeq(<<1, 2, 3, 4>>,
                             LAMBDA i : Len(TierRows(df, tier_order[i])) > 0)
        Line(i) ==
            LET row == TierRows(df, tier_order[i])[1]
            IN  [name |-> tier_names[i],
                 avg |-> Fmt(Quot(row.Average, 1), 2),
                 overhead |-> IF i = 1 THEN <<0, 1>>
                              ELSE OverheadPct(row.Average, baseline_avg),
                 text |-> IF i = 1 THEN Fmt(<<0, 1>>, 1)
                          ELSE Fmt(OverheadPct(row.Average, baseline_avg), 1)]
    IN  [k \in 1..Len(present) |-> Line(present[k])]

\* variant: the overhead breakdown saved under the average chart's names
OutputsClash(g) ==
    CASE g = "avg" -> {"avg_latency_comparison.png", "avg_latency_comparison.pdf"}
      [] g = "pct" -> {"percentile_comparison.png", "percentile_comparison.pdf"}
      [] g = "ovh" -> {"avg_latency_comparison.png", "avg_latency_comparison.pdf"}
      [] g = "thr" -> {"throughput_comparison.png", "throughput_comparison.pdf"}
      [] g = "rng" -> {"latency_range.png", "latency_range.pdf"}
      [] g = "tbl" -> {"performance_table.tex"}

\* the files each generator saves
Outputs(g) ==
    CASE g = "avg" -> {"avg_latency_comparison.png", "avg_latency_comparison.pdf"}
      [] g = "pct" -> {"percentile_comparison.png", "percentile_comparison.pdf"}
      [] g = "ovh" -> {"overhead_breakdown.png", "overhead_breakdown.pdf"}
      [] g = "thr" -> {"throughput_comparison.png", "throughput_comparison.pdf"}
      [] g = "rng" -> {"latency_range.png", "latency_range.pdf"}
      [] g = "tbl" -> {"performance_table.tex"}

(***************************************************************************)
(* The inputs explored: benchmark rows, CSV files, command lines and       *)
(* working directories.                                                    *)
(***************************************************************************)
Row(t, a, m, p95, p99, mn, mx) ==
    [Tier |-> t, Average |-> a, Median |-> m, P95 |-> p95, P99 |-> p99,
     Min |-> mn, Max |-> mx]

RowSet ==
    { Row("baseline", 50, 48, 80, 95, 20, 120),
      Row("baseline", 100, 90, 160, 190, 40, 250),
      Row("baseline", 0, 0, 0, 0, 0, 0),
      Row("zeroTrust", 65, 61, 110, 130, 30, 170),
      Row("zeroTrust", 150, 140, 230, 260, 70, 300),
      Row("contextAware", 60, 58, 100, 125, 25, 160),
      Row("privacyPreserving", 70, 66, 120, 140, 35, 180),
      Row("privacyPreserving", 200, 180, 310, 350, 90, 400) }

ExampleRows ==
    << Row("baseline", 50, 48, 80, 95, 20, 120),
       Row("zeroTrust", 65, 61, 110, 130, 30, 170),
       Row("contextAware", 60, 58, 100, 125, 25, 160),
       Row("privacyPreserving", 70, 66, 120, 140, 35, 180) >>

NoBaselineRows == Tail(ExampleRows)

Tables == UNION {[1..n -> RowSet] : n \in 0..MaxRows}

SmallTables == {ExampleRows, NoBaselineRows}

RequiredSet == Range(required_cols)

AllCols == RequiredSet \cup {"Extra"}

\* what pd.read_csv returns for a file with these columns and these rows
Frame(columns, rows) ==
    [columns |-> columns,
     rows |-> [i \in DOMAIN rows |->
                 [c \in columns |-> IF c \in DOMAIN rows[i] THEN rows[i][c] ELSE 0]]]

ValidCSVs ==
    {Frame(RequiredSet, t) : t \in Tables}
        \cup {Frame(AllCols, t) : t \in SmallTables}

InvalidCSVs ==
    {Frame(c, t) : c \in {x \in SUBSET AllCols : ~(RequiredSet \subseteq x)},
                   t \in SmallTables}

SmallCSVs ==
    { Frame(RequiredSet, ExampleRows),
      Frame(RequiredSet, NoBaselineRows),
      Frame(RequiredSet \ {"P99", "Min"}, ExampleRows) }

ScriptName == <<7>>                 \* visualize.py

ResultsCsv == <<6, 1>>              \* results.csv

DirNames ==
    { <<5, 3, 1>>,                  \* benchmark_results_a.csv
      <<5, 3, 4, 1>>,               \* benchmark_results_ab.csv
      <<5, 4, 1>>,                  \* benchmark_results_b.csv
      <<5, 8, 2>>,                  \* benchmark_results_z.txt
      ResultsCsv }

ArgNames == {ResultsCsv, <<5, 3, 1>>}

Argvs ==
    {<<ScriptName>> \o a : a \in UNION {[1..n -> ArgNames] : n \in 0..MaxArgs}}

Dirs == {d \in SUBSET DirNames : Cardinality(d) <= MaxFiles}

Orders ==
    {o \in [1..Len(FixedOrder) -> Range(FixedOrder)] :
        \A i, j \in DOMAIN o : i # j => o[i] # o[j]}

NoFrame == [columns |-> {}, rows |-> <<>>]

InitRun ==
    /\ searched = FALSE
    /\ summary_file = <<>>
    /\ summary = NoFrame
    /\ idx = 1
    /\ invoked = <<>>
    /\ files = <<>>
    /\ out = <<>>
    /\ pc = "resolve"
    /\ exit_code = -1

\* every table, one command line
InitData ==
    /\ argv = <<ScriptName, ResultsCsv>>
    /\ cwd = {ResultsCsv}
    /\ output_dir = "absent"
    /\ csv \in ValidCSVs \cup InvalidCSVs
    /\ order = FixedOrder
    /\ InitRun

\* every command line and working directory, a few tables
InitEnv ==
    /\ argv \in Argvs
    /\ cwd \in Dirs
    /\ output_dir \in {"absent", "preexisting"}
    /\ csv \in SmallCSVs
    /\ order = FixedOrder
    /\ InitRun

Init == InitData \/ InitEnv

\* the generators called in every order, to compare the orders
InitAnyOrder ==
    /\ \/ /\ argv = <<ScriptName, ResultsCsv>>
          /\ cwd = {ResultsCsv}
          /\ order \in Orders
       \/ /\ argv = <<ScriptName>>
          /\ cwd \in {{}, {<<5, 3, 1>>, <<5, 4, 1>>}}
          /\ order = FixedOrder
    /\ output_dir = "absent"
    /\ csv \in SmallCSVs
    /\ InitRun

(***************************************************************************)
(* main, lines 299-309: input resolution.                                  *)
(***************************************************************************)
Say(by, kind, arg) == [by |-> by, kind |-> kind, arg |-> arg]

main_argv ==
    /\ pc = "resolve"
    /\ ~(Len(argv) < 2)
    /\ summary_file' = argv[2]
    /\ pc' = "load"
    /\ UNCHANGED <<argv, cwd, output_dir, csv, order, searched, summary, idx,
                   invoked, files, out, exit_code>>

main_search_found ==
    /\ pc = "resolve"
    /\ Len(argv) < 2
    /\ Glob(cwd) # {}
    /\ searched' = TRUE
    /\ summary_file' = SortedLast(Glob(cwd))
    /\ out' = out \o <<Say("main", "usage", <<>>),
                       Say("main", "using", SortedLast(Glob(cwd)))>>
    /\ pc' = "load"
    /\ UNCHANGED <<argv, cwd, output_dir, csv, order, summary, idx, invoked,
                   files, exit_code>>

main_search_none ==
    /\ pc = "resolve"
    /\ Len(argv) < 2
    /\ Glob(cwd) = {}
    /\ searched' = TRUE
    /\ out' = out \o <<Say("main", "usage", <<>>),
                       Say("main", "no_csv_found", <<>>)>>
    /\ pc' = "exit"
    /\ exit_code' = 1
    /\ UNCHANGED <<argv, cwd, output_dir, csv, order, summary_file, summary,
                   idx, invoked, files>>

(***************************************************************************)
(* load_data, lines 21-36, called from line 316.                           *)
(***************************************************************************)
load_data_missing ==
    /\ pc = "load"
    /\ MissingCols(csv.columns) # <<>>
    /\ out' = out \o <<Say("load_data", "missing_cols", MissingCols(csv.columns)),
                       Say("load_data", "found_cols", csv.columns)>>
    /\ pc' = "exit"
    /\ exit_code' = 1
    /\ UNCHANGED <<argv, cwd, output_dir, csv, order, searched, summary_file,
                   summary, idx, invoked, files>>

load_data_ok ==
    /\ pc = "load"
    /\ MissingCols(csv.columns) = <<>>
    /\ summary' = csv
    /\ out' = Append(out, Say("load_data", "loaded", Len(csv.rows)))
    /\ pc' = "mkdir"
    /\ UNCHANGED <<argv, cwd, output_dir, csv, order, searched, summary_file,
                   idx, invoked, files, exit_code>>

\* lines 319-320: output_dir.mkdir(exist_ok=True)
main_mkdir ==
    /\ pc = "mkdir"
    /\ output_dir' = IF output_dir = "absent" THEN "created" ELSE output_dir
    /\ pc' = "gen"
    /\ UNCHANGED <<argv, cwd, csv, order, searched, summary_file, summary, idx,
                   invoked, files, out, exit_code>>

(***************************************************************************)
(* The six generators, lines 325-330.  order is the sequence of calls in   *)
(* main; idx is the position of the next call.                             *)
(***************************************************************************)
Turn(g) == pc = "gen" /\ order[idx] = g

\* plt.savefig(...png) and plt.savefig(...pdf), or the write of the table
Saved(g, content) ==
    [f \in DOMAIN files \cup Outputs(g) |->
        IF f \in Outputs(g) THEN content ELSE files[f]]

Return(g) ==
    /\ invoked' = Append(invoked, g)
    /\ idx' = idx + 1
    /\ pc' = IF idx = Len(order) THEN "summary" ELSE "gen"
    /\ UNCHANGED <<argv, cwd, output_dir, csv, order, searched, summary_file,
                   summary, exit_code>>

Warned(by, tiers) == [k \in 1..Len(tiers) |-> Say(by, "warning", tiers[k])]

create_average_latency_comparison ==
    /\ Turn("avg")
    /\ files' = Saved("avg", AvgFigure(summary))
    /\ out' = out \o Warned("avg", AvgWarnings(summary))
                  \o <<Say("avg", "generated", "avg_latency_comparison.png")>>
    /\ Return("avg")

create_percentile_comparison ==
    /\ Turn("pct")
    /\ files' = Saved("pct", PctFigure(summary))
    /\ out' = Append(out, Say("pct", "generated", "percentile_comparison.png"))
    /\ Return("pct")

create_overhead_breakdown ==
    /\ Turn("ovh")
    /\ files' = Saved("ovh", OvhFigure(summary))
    /\ out' = Append(out, Say("ovh", "generated", "overhead_breakdown.png"))
    /\ Return("ovh")

create_throughput_comparison ==
    /\ Turn("thr")
    /\ files' = Saved("thr", ThrFigure(summary))
    /\ out' = Append(out, Say("thr", "generated", "throughput_comparison.png"))
    /\ Return("thr")

create_min_max_range_plot ==
    /\ Turn("rng")
    /\ files' = Saved("rng", RngFigure(summary))
    /\ out' = Append(out, Say("rng", "generated", "latency_range.png"))
    /\ Return("rng")

\* line 274 indexes the first baseline row without checking that there is one
TableFaults(df) == Len(TierRows(df, "baseline")) = 0

generate_summary_table ==
    /\ Turn("tbl")
    /\ IF TableFaults(summary)
       THEN /\ invoked' = Append(invoked, "tbl")
            /\ out' = Append(out, Say("tbl", "IndexError", <<>>))
            /\ pc' = "fault"
            /\ exit_code' = 1
            /\ UNCHANGED <<argv, cwd, output_dir, csv, order, searched,
                           summary_file, summary, idx, files>>
       ELSE /\ files' = Saved("tbl", TableRows(summary))
            /\ out' = Append(out, Say("tbl", "generated", "performance_table.tex"))
            /\ Return("tbl")

\* lines 332-354: the console summary, then the normal end of the process
main_summary ==
    /\ pc = "summary"
    /\ IF Len(TierRows(summary, "baseline")) = 0
       THEN /\ out' = Append(out, Say("main", "IndexError", <<>>))
            /\ pc' = "fault"
            /\ exit_code' = 1
       ELSE /\ out' = out \o <<Say("main", "all_generated", <<>>),
                               Say("main", "summary", SummaryLines(summary))>>
            /\ pc' = "done"
            /\ exit_code' = 0
    /\ UNCHANGED <<argv, cwd, output_dir, csv, order, searched, summary_file,
                   summary, idx, invoked, files>>

Next ==
    \/ main_argv
    \/ main_search_found
    \/ main_search_none
    \/ load_data_missing
    \/ load_data_ok
    \/ main_mkdir
    \/ create_average_latency_comparison
    \/ create_percentile_comparison
    \/ create_overhead_breakdown
    \/ create_throughput_comparison
    \/ create_min_max_range_plot
    \/ generate_summary_table
    \/ main_summary

Spec == Init /\ [][Next]_vars

SpecAnyOrder == InitAnyOrder /\ [][Next]_vars

(***************************************************************************)
(* Vocabulary of the properties.                                           *)
(***************************************************************************)
Loaded == summary.columns # {}

LacksColumn == ~(RequiredSet \subseteq csv.columns)

IndexesOf(t) == {i \in DOMAIN summary.rows : summary.rows[i].Tier = t}

TierAbsent(t) == Loaded /\ IndexesOf(t) = {}

TierPresent(t) == Loaded /\ IndexesOf(t) # {}

FirstRow(t) ==
    summary.rows[CHOOSE i \in IndexesOf(t) : \A j \in IndexesOf(t) : i <= j]

Written(f) == f \in DOMAIN files

Events(by, kind) == {i \in DOMAIN out : out[i].by = by /\ out[i].kind = kind}

WarningsFor(by, t) == {i \in Events(by, "warning") : out[i].arg = t}

NonBaseline == {2, 3, 4}

ChartFiles ==
    {"avg_latency_comparison.png", "avg_latency_comparison.pdf",
     "percentile_comparison.png", "percentile_comparison.pdf",
     "overhead_breakdown.png", "overhead_breakdown.pdf",
     "throughput_comparison.png", "throughput_comparison.pdf",
     "latency_range.png", "latency_range.pdf"}

\* C1: a run on a file that lacks a required column never gets past
\* load_data; once load_data has run the process has exited with status 1,
\* the reported missing columns are exactly the required columns the file
\* lacks, no generator has been invoked, the output directory has not been
\* created and no output file has been written.
C1_MissingColumnsAbort ==
    LacksColumn =>
        /\ pc \in {"resolve", "load", "exit"}
        /\ ~Loaded
        /\ invoked = <<>>
        /\ output_dir # "created"
        /\ DOMAIN files = {}
        /\ (pc = "exit" /\ summary_file # <<>>) =>
              /\ exit_code = 1
              /\ Cardinality(Events("load_data", "missing_cols")) = 1
              /\ \A i \in Events("load_data", "missing_cols") :
                    /\ Range(out[i].arg) = RequiredSet \ csv.columns
                    /\ Len(out[i].arg) = Cardinality(RequiredSet \ csv.columns)
              /\ \A i \in Events("load_data", "found_cols") :
                    out[i].arg = csv.columns

C1_Witness ==
    /\ pc = "exit"
    /\ summary_file # <<>>
    /\ Cardinality(RequiredSet \ csv.columns) >= 2
    /\ "Extra" \in csv.columns
    /\ Events("load_data", "missing_cols") # {}

IsQuotient(q, n, d) == q[2] > 0 /\ q[1] * d = n * q[2]

\* C3 as stated: with a validated table that has no baseline row, the
\* average-latency chart, the overhead-breakdown chart and the table
\* generator all fail, so none of them writes its output file.
C3_Original ==
    TierAbsent("baseline") =>
        /\ ~Written("avg_latency_comparison.png")
        /\ ~Written("overhead_breakdown.png")
        /\ ~Written("performance_table.tex")

\* C3 amended: with a validated table that has no baseline row, only the
\* table generator fails (unhandled IndexError, exit status 1, no
\* performance_table.tex); the average-latency chart warns about baseline,
\* plots 0 for it, computes overhead against 1 and writes its files; the
\* overhead-breakdown chart takes 0 as the baseline average and writes its
\* files.
C3_MissingBaseline ==
    TierAbsent("baseline") =>
        /\ "avg" \in Range(invoked) =>
              /\ Written("avg_latency_comparison.png")
              /\ Written("avg_latency_comparison.pdf")
              /\ files["avg_latency_comparison.png"].bars[1] = 0
              /\ Cardinality(WarningsFor("avg", "baseline")) = 1
              /\ \A t \in files["avg_latency_comparison.png"].overhead_texts :
                    t.overhead =
                       <<(files["avg_latency_comparison.png"].bars[t.i] - 1) * 100, 1>>
        /\ "ovh" \in Range(invoked) =>
              /\ Written("overhead_breakdown.png")
              /\ Written("overhead_breakdown.pdf")
              /\ files["overhead_breakdown.png"].baseline = 0
        /\ "tbl" \in Range(invoked) =>
              /\ pc = "fault"
              /\ exit_code = 1
              /\ Events("tbl", "IndexError") # {}
        /\ ~Written("performance_table.tex")

C3_Witness ==
    /\ TierAbsent("baseline")
    /\ TierPresent("zeroTrust")
    /\ pc = "fault"
    /\ Written("avg_latency_comparison.png")
    /\ Written("overhead_breakdown.png")

OneRowEach ==
    /\ Loaded
    /\ Len(summary.rows) = 4
    /\ \A i \in 1..4 : Cardinality(IndexesOf(tier_order[i])) = 1

\* the loaded rows rearranged into the order baseline, zeroTrust,
\* contextAware, privacyPreserving
SortedFrame ==
    [columns |-> summary.columns,
     rows |-> [i \in 1..4 |-> FirstRow(tier_order[i])]]

\* C4: when the table holds exactly one row per tier, whatever the row
\* order, every generator and the console summary produce what they produce
\* for the same rows in tier order, and position i of every output is the
\* value of tier i of baseline, zeroTrust, contextAware, privacyPreserving.
C4_RowOrderInvariance ==
    OneRowEach =>
        /\ Written("avg_latency_comparison.png") =>
              /\ files["avg_latency_comparison.png"] = AvgFigure(SortedFrame)
              /\ \A i \in 1..4 : files["avg_latency_comparison.png"].bars[i]
                                    = FirstRow(tier_order[i]).Average
        /\ Written("percentile_comparison.png") =>
              /\ files["percentile_comparison.png"] = PctFigure(SortedFrame)
              /\ \A i \in 1..4 :
                    /\ files["percentile_comparison.png"].medians[i]
                          = FirstRow(tier_order[i]).Median
                    /\ files["percentile_comparison.png"].p95s[i]
                          = FirstRow(tier_order[i]).P95
                    /\ files["percentile_comparison.png"].p99s[i]
                          = FirstRow(tier_order[i]).P99
        /\ Written("overhead_breakdown.png") =>
              /\ files["overhead_breakdown.png"] = OvhFigure(SortedFrame)
              /\ files["overhead_breakdown.png"].baseline = FirstRow("baseline").Average
        /\ Written("throughput_comparison.png") =>
              files["throughput_comparison.png"] = ThrFigure(SortedFrame)
        /\ Written("latency_range.png") =>
              /\ files["latency_range.png"] = RngFigure(SortedFrame)
              /\ \A p \in files["latency_range.png"].points :
                    p.avg = FirstRow(tier_order[p.i]).Average
        /\ Written("performance_table.tex") =>
              /\ files["performance_table.tex"] = TableRows(SortedFrame)
              /\ [k \in 1..4 |-> files["performance_table.tex"][k].name] = tier_names
        /\ pc = "done" =>
              \A e \in Events("main", "summary") :
                  /\ out[e].arg = SummaryLines(SortedFrame)
                  /\ [k \in 1..4 |-> out[e].arg[k].name] = tier_names

C4_Witness ==
    /\ OneRowEach
    /\ pc = "done"
    /\ summary.rows[1].Tier = "privacyPreserving"
    /\ summary.rows[2].Tier = "baseline"
    /\ Events("main", "summary") # {}

\* the overhead annotations the average chart drew for position i
AvgTextsAt(i) ==
    {t \in files["avg_latency_comparison.png"].overhead_texts : t.i = i}

\* the rows of the written table, or the lines of the printed summary,
\* that carry the display name of position i
TableRowsAt(i) ==
    {k \in DOMAIN files["performance_table.tex"] :
        files["performance_table.tex"][k].name = tier_names[i]}

SummaryLinesAt(e, i) ==
    {k \in DOMAIN out[e].arg : out[e].arg[k].name = tier_names[i]}

\* C5: for every non-baseline tier with a positive average A and a positive
\* baseline average B, the average chart, the table and the console summary
\* each compute the overhead (A - B) / B * 100 exactly; for baseline 100 and
\* zeroTrust 150 it is 50, and for 50 / 65 / 60 / 70 it is 30, 20 and 40
\* (labels (+30%), (+20%), (+40%), table cell +30.0%).
C5_OverheadArithmetic ==
    /\ \A i \in NonBaseline :
          (/\ TierPresent("baseline")
           /\ TierPresent(tier_order[i])
           /\ FirstRow("baseline").Average > 0
           /\ FirstRow(tier_order[i]).Average > 0) =>
              LET A == FirstRow(tier_order[i]).Average
                  B == FirstRow("baseline").Average
              IN  /\ Written("avg_latency_comparison.png") =>
                        /\ Cardinality(AvgTextsAt(i)) = 1
                        /\ \A t \in AvgTextsAt(i) :
                              IsQuotient(t.overhead, (A - B) * 100, B)
                  /\ Written("performance_table.tex") =>
                        /\ Cardinality(TableRowsAt(i)) = 1
                        /\ \A k \in TableRowsAt(i) :
                              IsQuotient(files["performance_table.tex"][k].cell.value,
                                         (A - B) * 100, B)
                  /\ pc = "done" =>
                        \A e \in Events("main", "summary") :
                            /\ Cardinality(SummaryLinesAt(e, i)) = 1
                            /\ \A k \in SummaryLinesAt(e, i) :
                                  /\ IsQuotient(out[e].arg[k].overhead, (A - B) * 100, B)
                                  /\ \A t \in AvgTextsAt(i) :
                                        out[e].arg[k].overhead = t.overhead
                                  /\ \A r \in TableRowsAt(i) :
                                        out[e].arg[k].overhead
                                           = files["performance_table.tex"][r].cell.value
    /\ (/\ pc = "done"
        /\ TierPresent("baseline") /\ FirstRow("baseline").Average = 100
        /\ TierPresent("zeroTrust") /\ FirstRow("zeroTrust").Average = 150) =>
          /\ \A t \in AvgTextsAt(2) : t.overhead = <<50, 1>>
          /\ \A k \in TableRowsAt(2) :
                /\ files["performance_table.tex"][k].cell.value = <<50, 1>>
                /\ files["performance_table.tex"][k].cell.pct.scaled = 500
    /\ (pc = "done" /\ summary.rows = ExampleRows) =>
          /\ {<<t.i, t.overhead, t.label.scaled>> :
                 t \in files["avg_latency_comparison.png"].overhead_texts}
                = {<<2, <<30, 1>>, 30>>, <<3, <<20, 1>>, 20>>, <<4, <<40, 1>>, 40>>}
          /\ files["performance_table.tex"][2].cell.prefix = "+"
          /\ files["performance_table.tex"][2].cell.pct.scaled = 300
          /\ files["performance_table.tex"][2].cell.pct.decimals = 1

C5_Witness ==
    /\ pc = "done"
    /\ summary.rows = ExampleRows
    /\ Cardinality(files["avg_latency_comparison.png"].overhead_texts) = 3
    /\ Events("main", "summary") # {}

\* C6: the throughput chart plots, for each of the four tiers, 1000 / average
\* when the average is positive and 0 when the average is 0 or the tier has
\* no row, and always completes; average 200 gives 5 and average 50 gives 20.
C6_Throughput ==
    /\ "thr" \in Range(invoked) => Written("throughput_comparison.png")
    /\ Written("throughput_comparison.png") =>
          \A i \in 1..4 :
              LET v == files["throughput_comparison.png"].throughput[i]
              IN  IF TierPresent(tier_order[i]) /\ FirstRow(tier_order[i]).Average > 0
                  THEN /\ IsQuotient(v, 1000, FirstRow(tier_order[i]).Average)
                       /\ FirstRow(tier_order[i]).Average = 200 => v = <<5, 1>>
                       /\ FirstRow(tier_order[i]).Average = 50 => v = <<20, 1>>
                  ELSE v = <<0, 1>>

C6_Witness ==
    /\ Written("throughput_comparison.png")
    /\ TierPresent("baseline") /\ FirstRow("baseline").Average = 0
    /\ TierAbsent("zeroTrust")
    /\ TierPresent("privacyPreserving")
    /\ FirstRow("privacyPreserving").Average = 200
    /\ files["throughput_comparison.png"].throughput[4] = <<5, 1>>

PresentPositions ==
    LET Here(i) == IndexesOf(tier_order[i]) # {}
    IN  SelectSeq(<<1, 2, 3, 4>>, Here)

\* C7 as stated: the written table has exactly one data row for each of the
\* four tiers, in the order baseline, zeroTrust, contextAware,
\* privacyPreserving; the baseline row's overhead cell is '---' and every
\* other row's cell is a '+'-prefixed percentage.
C7_Original ==
    Written("performance_table.tex") =>
        /\ Len(files["performance_table.tex"]) = 4
        /\ \A k \in 1..4 :
              /\ files["performance_table.tex"][k].name = tier_names[k]
              /\ files["performance_table.tex"][k].cell.dashes = (k = 1)
              /\ k > 1 => files["performance_table.tex"][k].cell.prefix = "+"

\* C7 amended: the written table has exactly one data row for each of the
\* four tiers that has a row in the loaded table and none for an absent
\* tier, in the order baseline, zeroTrust, contextAware, privacyPreserving;
\* the baseline row comes first with '---' and every other row's cell is
\* '+' followed by the overhead of the tier's average over the baseline
\* average, to one decimal (inf or nan when the baseline average is 0).
C7_TableRows ==
    Written("performance_table.tex") =>
        LET tex == files["performance_table.tex"]
            B == FirstRow("baseline").Average
        IN  /\ TierPresent("baseline")
            /\ [k \in DOMAIN tex |-> tex[k].name]
                  = [k \in DOMAIN PresentPositions |-> tier_names[PresentPositions[k]]]
            /\ tex[1].cell.dashes /\ tex[1].cell.prefix = ""
            /\ \A k \in DOMAIN tex :
                  k > 1 =>
                     LET A == FirstRow(tier_order[PresentPositions[k]]).Average
                     IN  /\ ~tex[k].cell.dashes
                         /\ tex[k].cell.prefix = "+"
                         /\ tex[k].cell.pct.decimals = 1
                         /\ B > 0 => /\ IsQuotient(tex[k].cell.value, (A - B) * 100, B)
                                     /\ tex[k].cell.pct.special = ""
                         /\ B = 0 => /\ tex[k].cell.value = <<Sign(A), 0>>
                                     /\ tex[k].cell.pct.special \in {"inf", "nan"}

C7_Witness ==
    /\ Written("performance_table.tex")
    /\ Len(files["performance_table.tex"]) = 3
    /\ TierAbsent("contextAware")
    /\ Cardinality(IndexesOf("zeroTrust")) = 2
    /\ FirstRow("baseline").Average > 0

\* the files of the directory whose name starts with benchmark_results_
PrefixMatches(dir) ==
    {n \in dir : Len(n) >= 1 /\ Lexemes[n[1]] = "benchmark_results_"}

\* those of them whose name also ends with .csv
CsvMatches(dir) ==
    {n \in PrefixMatches(dir) : Len(n) >= 2 /\ Lexemes[n[Len(n)]] = ".csv"}

IsLast(n, names) == n \in names /\ \A m \in names : ~LexLess(n, m)

ExitedBeforeLoad ==
    /\ pc = "exit"
    /\ exit_code = 1
    /\ summary_file = <<>>
    /\ \A i \in DOMAIN out : out[i].by # "load_data"
    /\ ~Loaded
    /\ DOMAIN files = {}
    /\ output_dir # "created"

\* C8 as stated: once the input is resolved, a given path argument is the
\* input and no search was made; without an argument the input is the
\* lexicographically last file of the working directory matching
\* benchmark_results_*; without an argument and without such a file the
\* process has exited non-zero before load_data and before any output.
C8_Original ==
    pc # "resolve" =>
        /\ Len(argv) >= 2 => summary_file = argv[2] /\ ~searched
        /\ (Len(argv) < 2 /\ PrefixMatches(cwd) # {}) =>
              IsLast(summary_file, PrefixMatches(cwd))
        /\ (Len(argv) < 2 /\ PrefixMatches(cwd) = {}) => ExitedBeforeLoad

\* C8 amended: the same, with the searched pattern benchmark_results_*.csv:
\* files that start with benchmark_results_ but do not end with .csv are
\* neither chosen nor enough to avoid the exit.
C8_InputResolution ==
    pc # "resolve" =>
        /\ Len(argv) >= 2 => summary_file = argv[2] /\ ~searched
        /\ (Len(argv) < 2 /\ CsvMatches(cwd) # {}) =>
              /\ searched
              /\ IsLast(summary_file, CsvMatches(cwd))
        /\ (Len(argv) < 2 /\ CsvMatches(cwd) = {}) =>
              /\ searched
              /\ ExitedBeforeLoad

C8_Witness ==
    /\ pc = "load"
    /\ Len(argv) < 2
    /\ Cardinality(CsvMatches(cwd)) >= 2
    /\ PrefixMatches(cwd) # CsvMatches(cwd)
    /\ IsLast(summary_file, CsvMatches(cwd))

\* the files section 6 of the interface assigns to each generator
FilesOf(g) ==
    CASE g = "avg" -> {"avg_latency_comparison.png", "avg_latency_comparison.pdf"}
      [] g = "pct" -> {"percentile_comparison.png", "percentile_comparison.pdf"}
      [] g = "ovh" -> {"overhead_breakdown.png", "overhead_breakdown.pdf"}
      [] g = "thr" -> {"throughput_comparison.png", "throughput_comparison.pdf"}
      [] g = "rng" -> {"latency_range.png", "latency_range.pdf"}
      [] g = "tbl" -> {"performance_table.tex"}

Ended == Loaded /\ pc \in {"done", "fault"}

CalledBeforeTable ==
    {order[k] : k \in {j \in DOMAIN order : \A m \in 1..j : order[m] # "tbl"}}

C10_PartialOutput ==
    TierAbsent("baseline") =>
        /\ pc \notin {"summary", "done"}
        /\ Events("main", "summary") = {}
        /\ Events("main", "all_generated") = {}
        /\ ~Written("performance_table.tex")
        /\ exit_code # 0
        /\ pc = "fault" =>
              /\ exit_code = 1
              /\ invoked = <<"avg", "pct", "ovh", "thr", "rng", "tbl">>
              /\ DOMAIN files = ChartFiles
              /\ LET Gen(e) == e.kind = "generated"
                 IN  [k \in 1..5 |-> SelectSeq(out, Gen)[k].by]
                        = <<"avg", "pct", "ovh", "thr", "rng">>
              /\ Len(LET Gen(e) == e.kind = "generated" IN SelectSeq(out, Gen)) = 5

C10_Witness ==
    /\ TierAbsent("baseline")
    /\ TierPresent("privacyPreserving")
    /\ pc = "fault"
    /\ DOMAIN files = ChartFiles
    /\ Events("tbl", "IndexError") # {}

====
